---- MODULE Spec2Model ----
(***************************************************************************)
(* A model of roman_datamodels/datamodels.py: the DataModel wrapper        *)
(* classes, the model registry and the open() factory.                     *)
(*                                                                         *)
(* Python objects live in three heaps, each a sequence whose index is the  *)
(* object's identity: models (DataModel wrappers), nodes (stnode tagged    *)
(* nodes) and afs (asdf.AsdfFile objects).  disk maps paths to file        *)
(* contents.  Every action is one call of the public API; last records     *)
(* the call and how it ended (exc = NoExc for a normal return).            *)
(***************************************************************************)
EXTENDS Integers, Sequences, FiniteSets, TLC

VARIABLES models, nodes, afs, disk, saved, writes, saves, last

vars == <<models, nodes, afs, disk, saved, writes, saves, last>>

\* ------------------------------------------------------------------ bounds
MaxModels == 2      \* wrapper objects a behaviour may allocate
MaxWrites == 2      \* successful writes to wrapped nodes per behaviour
MaxSaves == 1       \* files a behaviour may write
MaxKids == 2        \* entries of the root mapping of a nested tree
MaxMembers == 3     \* models in a ModelContainer

\* --------------------------------------------------------------- constants
NoRef == 0          \* Python None where an object reference is expected
None == "None"      \* Python None where a value is expected
NoExc == "NoExc"    \* the call returned normally

\* ---------------------------------------------------------- class hierarchy
\* class statements of datamodels.py; "object" and "Sequence" are the bases
\* that are not DataModel subclasses.
LeafModelClasses ==
    {"ImageModel", "ScienceRawModel", "RampModel", "RampFitOutputModel",
     "AssociationsModel", "GuidewindowModel", "FlatRefModel", "DarkRefModel",
     "DistortionRefModel", "GainRefModel", "LinearityRefModel", "MaskRefModel",
     "PixelareaRefModel", "ReadnoiseRefModel", "SuperbiasRefModel",
     "SaturationRefModel", "WfiImgPhotomRefModel"}

ModelClasses == LeafModelClasses \cup {"DataModel", "ModelContainer"}

bases(c) ==
    IF c = "object" THEN {}
    ELSE IF c \in {"DataModel", "Sequence"} THEN {"object"}
    ELSE IF c = "ModelContainer" THEN {"DataModel", "Sequence"}
    ELSE {"DataModel"}

\* issubclass(c, t): t is c or one of its (at most two levels of) ancestors
issubclass(c, t) ==
    \/ c = t
    \/ t \in bases(c)
    \/ \E b \in bases(c) : t \in bases(b)

\* model_registry: node type -> wrapper class
model_registry ==
    ("WfiImage" :> "ImageModel") @@
    ("WfiScienceRaw" :> "ScienceRawModel") @@
    ("Ramp" :> "RampModel") @@
    ("RampFitOutput" :> "RampFitOutputModel") @@
    ("Associations" :> "AssociationsModel") @@
    ("ModelContainer" :> "ModelContainer") @@
    ("Guidewindow" :> "GuidewindowModel") @@
    ("FlatRef" :> "FlatRefModel") @@
    ("DarkRef" :> "DarkRefModel") @@
    ("DistortionRef" :> "DistortionRefModel") @@
    ("GainRef" :> "GainRefModel") @@
    ("LinearityRef" :> "LinearityRefModel") @@
    ("MaskRef" :> "MaskRefModel") @@
    ("PixelareaRef" :> "PixelareaRefModel") @@
    ("ReadnoiseRef" :> "ReadnoiseRefModel") @@
    ("SaturationRef" :> "SaturationRefModel") @@
    ("SuperbiasRef" :> "SuperbiasRefModel") @@
    ("WfiImgPhotomRef" :> "WfiImgPhotomRefModel")

\* ------------------------------------------------------------ input domains
\* Node types a behaviour starts from: two registered types, the type the
\* registry maps to ModelContainer, and a tagged node type the registry does
\* not know.
ScenarioTypes == {"FlatRef", "ModelContainer", "Exposure"}

\* Classes the caller constructs directly, and targets handed to open().
CallClasses == {"DataModel", "RampModel", "FlatRefModel"}
NoTarget == "NoTarget"
Targets == {NoTarget, "object", "DataModel", "RampModel", "FlatRefModel", "ModelContainer"}

\* Attribute names and values used by the callers.
Keys == {"data", "new_attribute", "crds_observatory", "_underscore"}
Values == {"77", "88"}

\* str.startswith('_') over the names the model uses
startswith_underscore(key) ==
    key \in {"_underscore", "_iscopy", "_shape", "_instance", "_asdf",
             "_files_to_close", "_ctx", "_models", "_memmap", "_return_open",
             "_save_open", "_pass_invalid_values", "_strict_validation", "_schema"}

\* Paths are (head, base, ext), the parts os.path.split and splitext give.
Path(head, base, ext) == <<head, base, ext>>
path_head(path) == path[1]
path_base(path) == path[2]
path_ext(path) == path[3]
NoPath == Path("", "", "")
InPath == Path("", "in", ".asdf")            \* a valid file of the scenario's type
BadPath == Path("", "bad", ".asdf")          \* a file that fails validation on read
JunkPath == Path("", "junk", ".txt")         \* not an ASDF file
FitsPath == Path("", "img", ".fits")         \* ASDF embedded in FITS
OutPath == Path("", "out", ".asdf")          \* no such file until one is saved
OutDirPath == Path("d", "out", ".asdf")      \* the same
OutTxtPath == Path("", "out", ".txt")        \* a name save() refuses
Paths == {InPath, BadPath, JunkPath, FitsPath, OutPath, OutDirPath}

\* What the caller passes as init.
InitOf(kind, ref, path) == [path |-> path, kind |-> kind, ref |-> ref, items |-> <<>>]
ListInit(items) == [path |-> NoPath, kind |-> "list", ref |-> NoRef, items |-> items]
NoInit == InitOf("none", NoRef, NoPath)
PathInit(path) == InitOf("path", NoRef, path)
AsdfInit(af) == InitOf("asdf", af, NoPath)
NodeInit(n) == InitOf("node", n, NoPath)
ModelInit(m) == InitOf("model", m, NoPath)

\* ------------------------------------------------------------------ stnode
\* Schema validation of a node property: the schema constrains "data".
ValidValue(key, value) == key # "data" \/ value = "77"

NodeValid(n) == \A k \in DOMAIN n.data : ValidValue(k, n.data[k])

\* hasattr(node, key) / getattr(node, key): DNode serves its _data keys
node_hasattr(n, key) == key \in DOMAIN n.data

\* DNode.__setattr__(key, value): an existing property is validated and set
node_setattr(n, key, value) ==
    IF ~node_hasattr(n, key) THEN [exc |-> "AttributeError", node |-> n]
    ELSE IF ~ValidValue(key, value) THEN [exc |-> "ValidationError", node |-> n]
    ELSE [exc |-> NoExc, node |-> [n EXCEPT !.data = (key :> value) @@ @]]

\* -------------------------------------------------------------------- asdf
\* The tag a node type is written under and the type a tag is read as.
TagOf(type) == <<"roman/tags", type>>
TypeOfTag(tag) == tag[2]

Content(kind, has_roman, tag, pairs) ==
    [kind |-> kind, has_roman |-> has_roman, tag |-> tag, pairs |-> pairs]
Absent == Content("absent", FALSE, TagOf("NoneType"), {})

\* AsdfFile.write_to: the tree {'roman': node} as tagged key/value pairs
Serialize(has_roman, n) ==
    Content("asdf", has_roman, TagOf(n.type),
            {<<k, n.data[k]>> : k \in DOMAIN n.data})

\* reading a file back: the node the tagged pairs describe
Parse(c) ==
    [type |-> TypeOfTag(c.tag),
     data |-> [k \in {p[1] : p \in c.pairs} |-> (CHOOSE p \in c.pairs : p[1] = k)[2]]]

ContentValid(c) == \A p \in c.pairs : ValidValue(p[1], p[2])

EmptyData == [k \in {} |-> None]
NoneNode == [type |-> "NoneType", data |-> EmptyData]

AsdfFile(has_roman, roman, fits) ==
    [has_roman |-> has_roman, roman |-> roman, closed |-> FALSE, fits |-> fits]

\* A heap is the triple of object stores an operation reads and extends.
Heap(ms, ns, as) == [models |-> ms, nodes |-> ns, afs |-> as]

\* How a call ends: the exception (NoExc: none), the returned reference, the
\* heap it leaves, and garbage: an AsdfFile that an unreachable wrapper made by
\* the call still holds (its __del__ may close it).
Outcome(exc, ret, H, garbage) == [exc |-> exc, ret |-> ret, H |-> H, garbage |-> garbage]
Result(exc, ret, H) == Outcome(exc, ret, H, NoRef)

\* asdf.open(path): a new AsdfFile (ret) holding the file's tree, or an error
asdf_open(H, path) ==
    LET c == disk[path] IN
    IF c.kind = "absent" THEN Result("FileNotFoundError", NoRef, H)
    ELSE IF c.kind = "not_asdf" THEN Result("ValueError", NoRef, H)
    ELSE IF ~ContentValid(c) THEN Result("ValidationError", NoRef, H)
    ELSE IF c.has_roman /\ TypeOfTag(c.tag) # "NoneType"
         THEN Result(NoExc, Len(H.afs) + 1,
                     Heap(H.models,
                          Append(H.nodes, Parse(c)),
                          Append(H.afs, AsdfFile(TRUE, Len(H.nodes) + 1, c.kind = "fits"))))
         ELSE Result(NoExc, Len(H.afs) + 1,
                     Heap(H.models, H.nodes,
                          Append(H.afs, AsdfFile(c.has_roman, NoRef, c.kind = "fits"))))

\* type(asdffile.tree['roman'])
NodeType(H, ref) == IF ref = NoRef THEN "NoneType" ELSE H.nodes[ref].type

\* ---------------------------------------------------------------- DataModel
\* A wrapper object: its class and its __dict__.
Object(cls, dict) == [cls |-> cls, dict |-> dict]

\* isinstance(models[m], t)
isinstance(H, m, t) == issubclass(H.models[m].cls, t)

\* the first four assignments of DataModel.__init__
NewDict ==
    ("_iscopy" :> FALSE) @@ ("_shape" :> None) @@ ("_instance" :> NoRef) @@ ("_asdf" :> NoRef)

\* What a constructor gives: the exception, the object built, the heap with
\* the objects the constructor allocated, and the AsdfFile a failed
\* construction leaves in the dead wrapper.
Built(exc, obj, H, garbage) == [exc |-> exc, obj |-> obj, H |-> H, garbage |-> garbage]

\* DataModel.check_type(asdffile): "KeyError" when the registry lookup fails
check_type(H, cls, af) ==
    IF ~H.afs[af].has_roman THEN "ValueError"
    ELSE IF NodeType(H, H.afs[af].roman) \notin DOMAIN model_registry THEN "KeyError"
    ELSE IF model_registry[NodeType(H, H.afs[af].roman)] # cls THEN "False"
    ELSE "True"

\* DataModel.__init__(self, init) for self of class cls
DataModel_init(H, cls, init) ==
    LET self == Object(cls, NewDict) IN
    IF init.kind = "none" THEN
        \* open_asdf(init=None): asdf.AsdfFile(None)
        Built(NoExc,
              Object(cls, ("_asdf" :> Len(H.afs) + 1) @@ NewDict),
              Heap(H.models, H.nodes, Append(H.afs, AsdfFile(FALSE, NoRef, FALSE))),
              NoRef)
    ELSE IF init.kind = "path" THEN
        LET r == asdf_open(H, init.path) IN
        IF r.exc # NoExc THEN Built(r.exc, self, H, NoRef)
        ELSE LET ok == check_type(r.H, cls, r.ret) IN
             IF ok \in {"ValueError", "KeyError"} THEN Built(ok, self, H, NoRef)
             ELSE IF ok = "False" THEN Built("ValueError", self, H, NoRef)
             ELSE Built(NoExc,
                        Object(cls, ("_instance" :> r.H.afs[r.ret].roman) @@
                                    ("_asdf" :> r.ret) @@ NewDict),
                        r.H, NoRef)
    ELSE IF init.kind = "asdf" THEN
        IF ~H.afs[init.ref].has_roman
        THEN Built("KeyError", Object(cls, ("_asdf" :> init.ref) @@ NewDict), H, init.ref)
        ELSE Built(NoExc,
                   Object(cls, ("_instance" :> H.afs[init.ref].roman) @@
                               ("_asdf" :> init.ref) @@ NewDict),
                   H, NoRef)
    ELSE IF init.kind = "node" THEN
        Built(NoExc,
              Object(cls, ("_instance" :> init.ref) @@ ("_asdf" :> Len(H.afs) + 1) @@ NewDict),
              Heap(H.models, H.nodes, Append(H.afs, AsdfFile(TRUE, init.ref, FALSE))),
              NoRef)
    ELSE Built("IOError", self, H, NoRef)

\* ModelContainer.__init__(self, init, iscopy=iscopy) with no asn_file_path;
\* a list init arrives as init.kind = "list" with its entries in init.items
ModelContainer_init(H, init, iscopy) ==
    LET base == DataModel_init(H, "ModelContainer", NoInit)
        dict == ("_models" :> <<>>) @@ ("_iscopy" :> iscopy) @@ ("_memmap" :> FALSE) @@
                ("_return_open" :> TRUE) @@ ("_save_open" :> TRUE) @@ base.obj.dict
    IN  IF init.kind = "list" THEN
            LET is_all_string == \A i \in DOMAIN init.items : init.items[i].kind = "path"
                is_all_roman_datamodels ==
                    \A i \in DOMAIN init.items : init.items[i].kind = "model"
            IN  IF is_all_string \/ is_all_roman_datamodels
                THEN Built(NoExc,
                           Object("ModelContainer", ("_models" :> init.items) @@ dict),
                           base.H, NoRef)
                ELSE Built("TypeError", Object("ModelContainer", dict), H, NoRef)
        ELSE Built("TypeError", Object("ModelContainer", dict), H, NoRef)

\* cls(init): the constructor Python runs for the class
Construct(H, cls, init) ==
    IF cls = "ModelContainer" THEN ModelContainer_init(H, init, FALSE)
    ELSE DataModel_init(H, cls, init)

\* Put a built object on the heap; its identity is ret.
Allocate(b) ==
    Outcome(NoExc, Len(b.H.models) + 1,
            Heap(Append(b.H.models, b.obj), b.H.nodes, b.H.afs), NoRef)

\* Names found on the wrapper's class before __getattr__ is asked: the class
\* attribute, the methods and the properties of DataModel.
ClassAttrs ==
    {"crds_observatory", "check_type", "schema_uri", "close", "copy", "clone", "save",
     "open_asdf", "to_asdf", "get_primary_array_name", "override_handle", "shape",
     "to_flat_dict", "items", "get_crds_parameters", "validate", "info", "search",
     "schema_info"}
ClassAttr(attr) == IF attr = "crds_observatory" THEN "roman" ELSE "member"

\* getattr(self, attr): the instance __dict__, then the class, then
\* DataModel.__getattr__, which asks the wrapped node
wrapper_getattr(H, m, attr) ==
    LET self == H.models[m] IN
    IF attr \in DOMAIN self.dict THEN [exc |-> NoExc, val |-> self.dict[attr]]
    ELSE IF attr \in ClassAttrs THEN [exc |-> NoExc, val |-> ClassAttr(attr)]
    ELSE IF self.dict["_instance"] = NoRef THEN [exc |-> "AttributeError", val |-> None]
    ELSE IF node_hasattr(H.nodes[self.dict["_instance"]], attr)
         THEN [exc |-> NoExc, val |-> H.nodes[self.dict["_instance"]].data[attr]]
         ELSE [exc |-> "AttributeError", val |-> None]

\* AsdfFile.copy(): a new AsdfFile over a deep copy of the tree
asdf_copy(H, af) ==
    IF H.afs[af].has_roman /\ H.afs[af].roman # NoRef
    THEN Result(NoExc, Len(H.afs) + 1,
                Heap(H.models,
                     Append(H.nodes, H.nodes[H.afs[af].roman]),
                     Append(H.afs, AsdfFile(TRUE, Len(H.nodes) + 1, H.afs[af].fits))))
    ELSE Result(NoExc, Len(H.afs) + 1,
                Heap(H.models, H.nodes,
                     Append(H.afs, AsdfFile(H.afs[af].has_roman, NoRef, H.afs[af].fits))))

\* DataModel.clone(target, source, deepcopy=True) applied to the fresh
\* cls(init=None) that DataModel.copy builds; ret is the copy's identity
DataModel_copy(H, m) ==
    LET source == H.models[m]
        result == Len(H.models) + 1
        \* copy.deepcopy(source._instance)
        H1 == IF source.dict["_instance"] = NoRef THEN H
              ELSE Heap(H.models, Append(H.nodes, H.nodes[source.dict["_instance"]]), H.afs)
        instance == IF source.dict["_instance"] = NoRef THEN NoRef ELSE Len(H1.nodes)
        a == asdf_copy(H1, source.dict["_asdf"])
        dict == ("_asdf" :> a.ret) @@ ("_instance" :> instance) @@ ("_iscopy" :> TRUE) @@
                ("_files_to_close" :> <<>>) @@ ("_shape" :> source.dict["_shape"]) @@
                ("_ctx" :> result) @@ NewDict
    IN  Allocate(Built(NoExc, Object(source.cls, dict), a.H, NoRef))

\* ModelContainer.copy(): its first statement reads self._pass_invalid_values
ModelContainer_copy(H, m) ==
    LET a == wrapper_getattr(H, m, "_pass_invalid_values") IN
    IF a.exc # NoExc THEN Result(a.exc, NoRef, H)
    ELSE LET b == wrapper_getattr(H, m, "_strict_validation") IN
         IF b.exc # NoExc THEN Result(b.exc, NoRef, H)
         \* self.__class__(init=None, ...): init is not a list
         ELSE Result("TypeError", NoRef, H)

\* init.copy(): the method of the object's class
copy(H, m) ==
    IF H.models[m].cls = "ModelContainer" THEN ModelContainer_copy(H, m)
    ELSE DataModel_copy(H, m)

\* open(), from "modeltype = type(asdffile.tree['roman'])" on
open_asdffile(H, af, target) ==
    IF ~H.afs[af].has_roman THEN Result("KeyError", NoRef, H)
    ELSE LET modeltype == NodeType(H, H.afs[af].roman) IN
         IF modeltype \in DOMAIN model_registry THEN
             LET rmodel == Construct(H, model_registry[modeltype], AsdfInit(af)) IN
             IF rmodel.exc # NoExc THEN Outcome(rmodel.exc, NoRef, H, rmodel.garbage)
             ELSE IF target # NoTarget THEN
                 IF ~issubclass(rmodel.obj.cls, target)
                 THEN Outcome("ValueError", NoRef, H, af)
                 \* no return statement on this path
                 ELSE Outcome(NoExc, NoRef, H, af)
             ELSE Allocate(rmodel)
         ELSE Allocate(DataModel_init(H, "DataModel", AsdfInit(af)))

\* open_datamodel with the matching init copied instead of returned
open_datamodel_copies(H, m, target) ==
    IF target # NoTarget THEN
        IF ~isinstance(H, m, target) THEN Result("ValueError", NoRef, H)
        ELSE copy(H, m)
    ELSE copy(H, m)

\* open(), the branch "elif isinstance(init, DataModel)"
open_datamodel(H, m, target) ==
    IF target # NoTarget THEN
        IF ~isinstance(H, m, target) THEN Result("ValueError", NoRef, H)
        ELSE Result(NoExc, m, H)
    \* Copy the object so it knows not to close here
    ELSE copy(H, m)

\* open_error with a bare "except": every error of the reader is translated
open_error_any(exc) == "TypeError"

\* try: asdf.open(...) except ValueError: raise TypeError(...)
open_error(exc) == IF exc = "ValueError" THEN "TypeError" ELSE exc

\* open(init, memmap, target); memmap only sets copy_arrays for asdf.open
open(H, init, target) ==
    IF target # NoTarget /\ ~issubclass(target, "DataModel")
    THEN Result("ValueError", NoRef, H)
    ELSE IF init.kind = "asdf" THEN open_asdffile(H, init.ref, target)
    ELSE IF init.kind = "model" THEN open_datamodel(H, init.ref, target)
    ELSE
        \* asdf.open takes paths and file objects only
        LET r == IF init.kind = "path" THEN asdf_open(H, init.path)
                 ELSE Result("ValueError", NoRef, H)
        IN  IF r.exc # NoExc THEN Result(open_error(r.exc), NoRef, H)
            ELSE IF r.H.afs[r.ret].fits THEN Result("TypeError", NoRef, H)
            ELSE LET t == open_asdffile(r.H, r.ret, target) IN
                 \* the file object is the call's own: nothing else holds it
                 IF t.ret = NoRef THEN Outcome(t.exc, NoRef, H, NoRef) ELSE t

\* DataModel_setitem without the test for a leading underscore
DataModel_setitem_unchecked(H, m, key, value) ==
    LET instance == H.models[m].dict["_instance"] IN
    IF instance = NoRef THEN [exc |-> "AttributeError", nodes |-> H.nodes]
    ELSE IF node_hasattr(H.nodes[instance], key) THEN
        LET r == node_setattr(H.nodes[instance], key, value) IN
        [exc |-> r.exc, nodes |-> [H.nodes EXCEPT ![instance] = r.node]]
    ELSE [exc |-> NoExc,
          nodes |-> [H.nodes EXCEPT ![instance].data = (key :> value) @@ @]]

\* DataModel_setitem that always goes through setattr on the node
DataModel_setitem_setattr(H, m, key, value) ==
    LET instance == H.models[m].dict["_instance"] IN
    IF startswith_underscore(key) THEN [exc |-> "ValueError", nodes |-> H.nodes]
    ELSE IF instance = NoRef THEN [exc |-> "AttributeError", nodes |-> H.nodes]
    ELSE LET r == node_setattr(H.nodes[instance], key, value) IN
         [exc |-> r.exc, nodes |-> [H.nodes EXCEPT ![instance] = r.node]]

\* DataModel.__setitem__(key, value) on models[m]: the exception and the nodes
DataModel_setitem(H, m, key, value) ==
    LET instance == H.models[m].dict["_instance"] IN
    IF startswith_underscore(key) THEN [exc |-> "ValueError", nodes |-> H.nodes]
    \* hasattr(None, key) is False and None has no _data
    ELSE IF instance = NoRef THEN [exc |-> "AttributeError", nodes |-> H.nodes]
    ELSE IF node_hasattr(H.nodes[instance], key) THEN
        LET r == node_setattr(H.nodes[instance], key, value) IN
        [exc |-> r.exc, nodes |-> [H.nodes EXCEPT ![instance] = r.node]]
    ELSE [exc |-> NoExc,
          nodes |-> [H.nodes EXCEPT ![instance].data = (key :> value) @@ @]]

\* ModelContainer.__setitem__(index, model) with a str index: list indices
\* must be integers
ModelContainer_setitem(H, m, key, value) == [exc |-> "TypeError", nodes |-> H.nodes]

\* DataModel_setattr that keeps every attribute on the wrapper
DataModel_setattr_dict(H, m, attr, value) ==
    [exc |-> NoExc, nodes |-> H.nodes,
     models |-> [H.models EXCEPT ![m].dict = (attr :> value) @@ @]]

\* DataModel.__setattr__(attr, value) on models[m]
DataModel_setattr(H, m, attr, value) ==
    LET instance == H.models[m].dict["_instance"] IN
    IF startswith_underscore(attr)
    THEN [exc |-> NoExc, nodes |-> H.nodes,
          models |-> [H.models EXCEPT ![m].dict = (attr :> value) @@ @]]
    ELSE IF instance = NoRef
    THEN [exc |-> "AttributeError", nodes |-> H.nodes, models |-> H.models]
    ELSE LET r == node_setattr(H.nodes[instance], attr, value) IN
         [exc |-> r.exc, nodes |-> [H.nodes EXCEPT ![instance] = r.node],
          models |-> H.models]

\* DataModel.save(path, dir_path): the exception, the path written and what
\* to_asdf writes there
DataModel_save(H, m, path, dir_path) ==
    LET head == IF dir_path # "" THEN dir_path ELSE path_head(path)
        output_path == Path(head, path_base(path), path_ext(path))
        instance == H.models[m].dict["_instance"]
        node == IF instance = NoRef THEN NoneNode ELSE H.nodes[instance]
    IN  IF path_ext(path) # ".asdf"
        THEN [exc |-> "ValueError", out |-> NoPath, content |-> Absent]
        \* to_asdf: AsdfFile.write_to validates the tree
        ELSE IF ~NodeValid(node)
        THEN [exc |-> "ValidationError", out |-> NoPath, content |-> Absent]
        ELSE [exc |-> NoExc, out |-> output_path, content |-> Serialize(TRUE, node)]

\* DataModel_close that never reaches self._asdf.close()
DataModel_close_never(H, m) == H.afs

\* DataModel_close without the test of self._iscopy
DataModel_close_always(H, m) ==
    LET self == H.models[m] IN
    IF self.dict["_asdf"] # NoRef
    THEN [H.afs EXCEPT ![self.dict["_asdf"]].closed = TRUE]
    ELSE H.afs

\* DataModel.close(): the AsdfFile stores after self.close()
DataModel_close(H, m) ==
    LET self == H.models[m] IN
    IF ~self.dict["_iscopy"] /\ self.dict["_asdf"] # NoRef
    THEN [H.afs EXCEPT ![self.dict["_asdf"]].closed = TRUE]
    ELSE H.afs

\* open(model) on the model an open() just returned
open_again(r) == IF r.exc # NoExc THEN r ELSE open(r.H, ModelInit(r.ret), NoTarget)

\* ------------------------------------------------------------ ModelContainer
\* The metadata models_grouped reads, in its order; a node keeps
\* meta.observation.<param> and meta.group_id under these keys of its data.
unique_exposure_parameters ==
    <<"program", "observation", "visit", "visit_file_group", "visit_file_sequence",
      "visit_file_activity", "exposure">>

\* str(n) of a natural number
digit(d) ==
    IF d = 0 THEN "0" ELSE IF d = 1 THEN "1" ELSE IF d = 2 THEN "2"
    ELSE IF d = 3 THEN "3" ELSE IF d = 4 THEN "4" ELSE IF d = 5 THEN "5"
    ELSE IF d = 6 THEN "6" ELSE IF d = 7 THEN "7" ELSE IF d = 8 THEN "8" ELSE "9"

RECURSIVE decimal(_)
decimal(n) == IF n < 10 THEN digit(n) ELSE decimal(n \div 10) \o digit(n % 10)

\* node[key] = value: the item assignment of a node stores without validating
node_setitem(n, key, value) == [n EXCEPT !.data = (key :> value) @@ @]

\* 'roman' + '_'.join([''.join(params[:3]), ''.join(params[3:6]), params[6]])
group_id_of(params) ==
    "roman" \o params[1] \o params[2] \o params[3]
            \o "_" \o params[4] \o params[5] \o params[6]
            \o "_" \o params[7]

\* group_dict_add that starts a new group for every model
group_dict_add_new(group_dict, group_id, model) ==
    Append(group_dict, <<group_id, <<model>>>>)

\* group_dict[group_id].append(model), or a new last entry of the OrderedDict
group_dict_add(group_dict, group_id, model) ==
    IF \E g \in DOMAIN group_dict : group_dict[g][1] = group_id
    THEN [g \in DOMAIN group_dict |->
            IF group_dict[g][1] = group_id
            THEN <<group_id, Append(group_dict[g][2], model)>>
            ELSE group_dict[g]]
    ELSE Append(group_dict, <<group_id, <<model>>>>)

\* How models_grouped ends: the exception, the heap, and group_dict as the
\* sequence of its (group_id, models) entries.
Grouped(exc, H, group_dict) == [exc |-> exc, H |-> H, groups |-> group_dict]

\* The model the loop of models_grouped works on for the i-th member: the
\* member or open(member), opened once more when _save_open is off.
member_model(H, c, i) ==
    LET member == H.models[c].dict["_models"][i]
        save_open == H.models[c].dict["_save_open"]
    IN  IF member.kind = "model"
        THEN IF save_open THEN Result(NoExc, member.ref, H)
             ELSE open(H, member, NoTarget)
        ELSE IF save_open THEN open(H, member, NoTarget)
             ELSE open_again(open(H, member, NoTarget))

\* The body of the loop of models_grouped from the i-th member on; r is the
\* outcome of member_model for that member.
RECURSIVE grouped_from(_, _, _, _)
grouped_member(c, i, group_dict, r) ==
    LET instance == IF r.exc = NoExc THEN r.H.models[r.ret].dict["_instance"] ELSE NoRef
        node == r.H.nodes[instance]
        params == [p \in DOMAIN unique_exposure_parameters |->
                      decimal(node.data[unique_exposure_parameters[p]])]
        group_id == group_id_of(params)
        H1 == Heap(r.H.models,
                   [r.H.nodes EXCEPT ![instance] = node_setitem(node, "group_id", group_id)],
                   r.H.afs)
        self == r.H.models[c]
        closing == ~self.dict["_save_open"] /\ ~self.dict["_return_open"]
        \* model.close(); model = self._models[i]
        H2 == IF closing THEN Heap(H1.models, H1.nodes, DataModel_close(H1, r.ret)) ELSE H1
        model == IF closing THEN self.dict["_models"][i] ELSE ModelInit(r.ret)
    IN  IF r.exc # NoExc THEN Grouped(r.exc, r.H, <<>>)
        ELSE IF instance = NoRef
                \/ \E p \in DOMAIN unique_exposure_parameters :
                      ~node_hasattr(node, unique_exposure_parameters[p])
        THEN Grouped("AttributeError", r.H, <<>>)
        ELSE grouped_from(H2, c, i + 1, group_dict_add(group_dict, group_id, model))

grouped_from(H, c, i, group_dict) ==
    IF i > Len(H.models[c].dict["_models"]) THEN Grouped(NoExc, H, group_dict)
    ELSE grouped_member(c, i, group_dict, member_model(H, c, i))

\* ModelContainer.models_grouped on models[c]: group_dict.values()
models_grouped(H, c) == grouped_from(H, c, 1, <<>>)

\* ------------------------------------------------------------ nested trees
\* A tree as items() walks it.  A leaf has the Python type of its value and
\* the value; a "dict" (DNode, dict) has its (key, subtree) entries in
\* iteration order; a "list" (LNode, list, tuple) has its elements in order
\* (as entries with an unused key).
Leaf(type, val) == [kind |-> "leaf", type |-> type, val |-> val, kids |-> <<>>]
DictTree(kids) == [kind |-> "dict", type |-> "dict", val |-> "", kids |-> kids]
ListTree(elems) ==
    [kind |-> "list", type |-> "list", val |-> "",
     kids |-> [i \in DOMAIN elems |-> <<"", elems[i]>>]]
NoneLeaf == Leaf("NoneType", "None")

\* str(i) of a list index
str_int(i) ==
    IF i = 0 THEN "0" ELSE IF i = 1 THEN "1" ELSE IF i = 2 THEN "2" ELSE "3"

\* '.'.join(str(x) for x in path)
RECURSIVE join(_)
join(path) ==
    IF path = <<>> THEN ""
    ELSE IF Len(path) = 1 THEN path[1]
    ELSE path[1] \o "." \o join(Tail(path))

\* items().recurse(tree, path): the (key, value) pairs it yields, in order;
\* recurse_from walks the entries of tree from the i-th on
RECURSIVE recurse(_, _)
RECURSIVE recurse_from(_, _, _)
recurse_from(tree, path, i) ==
    IF i > Len(tree.kids) THEN <<>>
    ELSE recurse(tree.kids[i][2],
                 Append(path, IF tree.kind = "dict" THEN tree.kids[i][1]
                              ELSE str_int(i - 1)))
         \o recurse_from(tree, path, i + 1)

\* recurse that also yields the leaves that are None
recurse_with_none(tree, path) ==
    IF tree.kind \in {"dict", "list"} THEN recurse_from(tree, path, 1)
    ELSE <<<<join(path), tree>>>>

recurse(tree, path) ==
    IF tree.kind \in {"dict", "list"} THEN recurse_from(tree, path, 1)
    ELSE IF tree.type # "NoneType" THEN <<<<join(path), tree>>>>
    ELSE <<>>

\* DataModel.items() on models[m]: recurse(self._instance)
DataModel_items(H, m) ==
    LET instance == H.models[m].dict["_instance"] IN
    IF instance = NoRef THEN <<>> ELSE recurse(H.nodes[instance].data, <<>>)

\* datetime.isoformat() and str(Time)
isoformat(val) == IF val = "datetime(2020,1,1)" THEN "2020-01-01T00:00:00" ELSE "iso"
str_Time(val) == IF val = "Time(2020-01-01)" THEN "2020-01-01 00:00:00.000" ELSE "time"

\* to_flat_dict.convert_val
convert_val(val) ==
    IF val.type = "datetime" THEN Leaf("str", isoformat(val.val))
    ELSE IF val.type = "Time" THEN Leaf("str", str_Time(val.val))
    ELSE val

\* dict(pairs): each key maps to the value of the last pair that has it
dict(pairs) ==
    [k \in {pairs[i][1] : i \in DOMAIN pairs} |->
        LET last_i == CHOOSE i \in DOMAIN pairs :
                          /\ pairs[i][1] = k
                          /\ \A j \in DOMAIN pairs : pairs[j][1] = k => j <= i
        IN  pairs[last_i][2]]

\* DataModel.to_flat_dict(include_arrays) on models[m]
to_flat_dict(H, m, include_arrays) ==
    LET its == DataModel_items(H, m)
        kept == SelectSeq(its, LAMBDA it : include_arrays \/ it[2].type # "ndarray")
    IN  dict([i \in DOMAIN kept |-> <<"roman." \o kept[i][1], convert_val(kept[i][2])>>])

\* isinstance(val, (str, int, float, complex, bool))
CrdsTypes == {"str", "int", "float", "complex", "bool"}

\* DataModel.get_crds_parameters() on models[m]
get_crds_parameters(H, m) ==
    LET flat == to_flat_dict(H, m, FALSE) IN
    [k \in {x \in DOMAIN flat : flat[x].type \in CrdsTypes} |-> flat[k]]

\* ------------------------------------------------------------------- state
TheHeap == Heap(models, nodes, afs)

\* DataModel.items() of a wrapped node: its (key, value) pairs
items(n) == {<<k, n.data[k]>> : k \in DOMAIN n.data}

NoCall ==
    [op |-> "none", self |-> NoRef, cls |-> "", init |-> NoInit, target |-> NoTarget,
     key |-> "", value |-> None, exc |-> NoExc, ret |-> NoRef, val |-> None,
     out |-> NoPath]

\* saved remembers the last successful save(): the path written, the class
\* of the model and its wrapped node as they were then.
NoSave == [path |-> NoPath, cls |-> "", node |-> NoneNode]

\* The properties a node has when it is made.
InitData == ("data" :> "77")

InitDisk(t) ==
    [p \in Paths |->
        IF p = InPath THEN Serialize(TRUE, [type |-> t, data |-> InitData])
        ELSE IF p = BadPath THEN Content("asdf", TRUE, TagOf(t), {<<"data", "88">>})
        ELSE IF p = JunkPath THEN Content("not_asdf", FALSE, TagOf("NoneType"), {})
        ELSE IF p = FitsPath THEN Content("fits", TRUE, TagOf(t), {<<"data", "77">>})
        ELSE Absent]

\* One tagged node of the scenario's type, an AsdfFile holding it and an
\* AsdfFile with an empty tree; the files on disk are of the same type.
Init ==
    \E t \in ScenarioTypes :
        /\ models = <<>>
        /\ nodes = <<[type |-> t, data |-> InitData]>>
        /\ afs = <<AsdfFile(TRUE, 1, FALSE), AsdfFile(FALSE, NoRef, FALSE)>>
        /\ disk = InitDisk(t)
        /\ saved = NoSave
        /\ writes = 0
        /\ saves = 0
        /\ last = NoCall

\* __del__ of a wrapper the call left unreachable runs when the collector
\* gets to it: the AsdfFile it holds is closed now or is still open.
Collected(as, garbage) ==
    {as} \cup (IF garbage = NoRef THEN {}
               ELSE {[as EXCEPT ![garbage].closed = TRUE]})

\* ----------------------------------------------------------------- actions
\* The caller is between calls, and may still allocate a wrapper.
Idle == last.op = "none" /\ Len(models) < MaxModels

\* The caller has looked at the outcome of its last call and goes on.
Return ==
    /\ last.op # "none"
    /\ last' = NoCall
    /\ UNCHANGED <<models, nodes, afs, disk, saved, writes, saves>>

\* cls(init) for one of the DataModel classes without an __init__ of its own
New(cls, init) ==
    \E b \in {DataModel_init(TheHeap, cls, init)} :
    \E r \in {IF b.exc = NoExc THEN Allocate(b)
              ELSE Outcome(b.exc, NoRef, TheHeap, b.garbage)} :
        /\ Idle
        /\ models' = r.H.models
        /\ nodes' = r.H.nodes
        /\ afs' \in Collected(r.H.afs, r.garbage)
        /\ last' = [NoCall EXCEPT !.op = "new", !.cls = cls, !.init = init,
                                  !.exc = r.exc, !.ret = r.ret]
        /\ UNCHANGED <<disk, saved, writes, saves>>

\* ModelContainer(init, iscopy=iscopy)
NewContainer(init, iscopy) ==
    \E b \in {ModelContainer_init(TheHeap, init, iscopy)} :
    \E r \in {IF b.exc = NoExc THEN Allocate(b)
              ELSE Outcome(b.exc, NoRef, TheHeap, NoRef)} :
        /\ Idle
        /\ models' = r.H.models
        /\ nodes' = r.H.nodes
        /\ afs' = r.H.afs
        /\ last' = [NoCall EXCEPT !.op = "new", !.cls = "ModelContainer", !.init = init,
                                  !.exc = r.exc, !.ret = r.ret]
        /\ UNCHANGED <<disk, saved, writes, saves>>

\* datamodels.open(init, target=target)
Open(init, target) ==
    \E r \in {open(TheHeap, init, target)} :
        /\ Idle
        /\ models' = r.H.models
        /\ nodes' = r.H.nodes
        /\ afs' \in Collected(r.H.afs, r.garbage)
        /\ last' = [NoCall EXCEPT !.op = "open", !.init = init, !.target = target,
                                  !.exc = r.exc, !.ret = r.ret]
        /\ UNCHANGED <<disk, saved, writes, saves>>

\* models[m].copy()
Copy(m) ==
    \E r \in {copy(TheHeap, m)} :
        /\ Idle
        /\ models' = r.H.models
        /\ nodes' = r.H.nodes
        /\ afs' = r.H.afs
        /\ last' = [NoCall EXCEPT !.op = "copy", !.self = m, !.exc = r.exc, !.ret = r.ret]
        /\ UNCHANGED <<disk, saved, writes, saves>>

\* models[m][key] = value
SetItem(m, key, value) ==
    \E r \in {IF models[m].cls = "ModelContainer"
              THEN ModelContainer_setitem(TheHeap, m, key, value)
              ELSE DataModel_setitem(TheHeap, m, key, value)} :
        /\ Idle
        /\ r.exc = NoExc => writes < MaxWrites
        /\ nodes' = r.nodes
        /\ writes' = IF r.exc = NoExc THEN writes + 1 ELSE writes
        /\ last' = [NoCall EXCEPT !.op = "setitem", !.self = m, !.key = key,
                                  !.value = value, !.exc = r.exc]
        /\ UNCHANGED <<models, afs, disk, saved, saves>>

\* models[m].attr = value
SetAttr(m, attr, value) ==
    \E r \in {DataModel_setattr(TheHeap, m, attr, value)} :
        /\ Idle
        /\ r.exc = NoExc => writes < MaxWrites
        /\ nodes' = r.nodes
        /\ models' = r.models
        /\ writes' = IF r.exc = NoExc THEN writes + 1 ELSE writes
        /\ last' = [NoCall EXCEPT !.op = "setattr", !.self = m, !.key = attr,
                                  !.value = value, !.exc = r.exc]
        /\ UNCHANGED <<afs, disk, saved, saves>>

\* models[m].attr
GetAttr(m, attr) ==
    \E r \in {wrapper_getattr(TheHeap, m, attr)} :
        /\ Idle
        /\ last' = [NoCall EXCEPT !.op = "getattr", !.self = m, !.key = attr,
                                  !.exc = r.exc, !.val = r.val]
        /\ UNCHANGED <<models, nodes, afs, disk, saved, writes, saves>>

\* models[m].save(path, dir_path)
Save(m, path, dir_path) ==
    \E r \in {DataModel_save(TheHeap, m, path, dir_path)} :
    \E instance \in {models[m].dict["_instance"]} :
        /\ Idle
        /\ r.exc = NoExc => saves < MaxSaves
        /\ disk' = IF r.exc = NoExc THEN [disk EXCEPT ![r.out] = r.content] ELSE disk
        /\ saved' = IF r.exc = NoExc
                     THEN [path |-> r.out, cls |-> models[m].cls,
                           node |-> IF instance = NoRef THEN NoneNode
                                    ELSE nodes[instance]]
                     ELSE saved
        /\ saves' = IF r.exc = NoExc THEN saves + 1 ELSE saves
        /\ last' = [NoCall EXCEPT !.op = "save", !.self = m, !.init = PathInit(path),
                                  !.exc = r.exc, !.out = r.out]
        /\ UNCHANGED <<models, nodes, afs, writes>>

\* The caller is between calls; enough for a call that builds no wrapper.
Ready == last.op = "none"

\* Whether the AsdfFile that models[m] holds is closed ("closed"/"open").
FileState(m) ==
    IF models[m].dict["_asdf"] = NoRef THEN None
    ELSE IF afs[models[m].dict["_asdf"]].closed THEN "closed" ELSE "open"

\* models[m].close(); last.val keeps the state of the file before the call
Close(m) ==
    /\ Ready
    /\ afs' = DataModel_close(TheHeap, m)
    /\ last' = [NoCall EXCEPT !.op = "close", !.self = m, !.val = FileState(m)]
    /\ UNCHANGED <<models, nodes, disk, saved, writes, saves>>

\* The end of "with models[m]:": __exit__(exc_type, ...) calls close() and
\* returns None, so an exception of the body (exc_type) goes on to the caller.
Exit(m, exc_type) ==
    /\ Ready
    /\ afs' = DataModel_close(TheHeap, m)
    /\ last' = [NoCall EXCEPT !.op = "exit", !.self = m, !.exc = exc_type,
                              !.val = FileState(m)]
    /\ UNCHANGED <<models, nodes, disk, saved, writes, saves>>

\* models[m].__del__()
Del(m) ==
    /\ Ready
    /\ afs' = DataModel_close(TheHeap, m)
    /\ last' = [NoCall EXCEPT !.op = "del", !.self = m, !.val = FileState(m)]
    /\ UNCHANGED <<models, nodes, disk, saved, writes, saves>>

\* list(models[m].items())
Items(m) ==
    /\ Ready
    /\ last' = [NoCall EXCEPT !.op = "items", !.self = m,
                              !.val = DataModel_items(TheHeap, m)]
    /\ UNCHANGED <<models, nodes, afs, disk, saved, writes, saves>>

\* models[m].to_flat_dict(include_arrays)
ToFlatDict(m, include_arrays) ==
    /\ Ready
    /\ last' = [NoCall EXCEPT !.op = "to_flat_dict", !.self = m,
                              !.value = include_arrays,
                              !.val = to_flat_dict(TheHeap, m, include_arrays)]
    /\ UNCHANGED <<models, nodes, afs, disk, saved, writes, saves>>

\* models[m].get_crds_parameters()
GetCrdsParameters(m) ==
    /\ Ready
    /\ last' = [NoCall EXCEPT !.op = "get_crds_parameters", !.self = m,
                              !.val = get_crds_parameters(TheHeap, m)]
    /\ UNCHANGED <<models, nodes, afs, disk, saved, writes, saves>>

\* models[c].models_grouped for a ModelContainer models[c]; last.val is the
\* list of groups.  Each call counts as a write (it sets meta.group_id).
ModelsGrouped(c) ==
    /\ Ready
    /\ models[c].cls = "ModelContainer"
    /\ writes < MaxWrites
    /\ \E r \in {models_grouped(TheHeap, c)} :
        /\ models' = r.H.models
        /\ nodes' = r.H.nodes
        /\ afs' = r.H.afs
        /\ writes' = writes + 1
        /\ last' = [NoCall EXCEPT !.op = "models_grouped", !.self = c, !.exc = r.exc,
                                  !.val = [g \in DOMAIN r.groups |-> r.groups[g][2]]]
        /\ UNCHANGED <<disk, saved, saves>>

\* ----------------------------------------------------------- specification
ModelIds == 1..Len(models)

\* What a caller can pass as init: nothing, a path, one of its own AsdfFile
\* objects or nodes (the ones Init made), or a model.
ReadPaths == {InPath, BadPath, JunkPath, FitsPath, OutPath}
Inits ==
    {NoInit} \cup {PathInit(p) : p \in ReadPaths} \cup {AsdfInit(1), AsdfInit(2), NodeInit(1)}
    \cup {ModelInit(m) : m \in ModelIds}

ListInits ==
    {ListInit(<<>>)} \cup {ListInit(<<ModelInit(m)>>) : m \in ModelIds}
    \cup {ListInit(<<PathInit(InPath)>>), ListInit(<<PathInit(InPath), ModelInit(1)>>)}

Next ==
    \/ \E cls \in CallClasses, init \in Inits : New(cls, init)
    \/ \E init \in ListInits \cup {NoInit}, iscopy \in BOOLEAN : NewContainer(init, iscopy)
    \/ \E init \in Inits \ {NoInit}, target \in Targets : Open(init, target)
    \/ \E m \in ModelIds : Copy(m)
    \/ \E m \in ModelIds, key \in Keys, value \in Values : SetItem(m, key, value)
    \/ \E m \in ModelIds, key \in Keys, value \in Values : SetAttr(m, key, value)
    \/ \E m \in ModelIds, key \in Keys : GetAttr(m, key)
    \/ \E m \in ModelIds, path \in {OutPath, OutTxtPath}, dir_path \in {"", "d"} :
          Save(m, path, dir_path)
    \/ \E m \in ModelIds : Close(m)
    \/ \E m \in ModelIds, exc_type \in {NoExc, "RuntimeError"} : Exit(m, exc_type)
    \/ \E m \in ModelIds : Del(m)
    \/ Return

Spec == Init /\ [][Next]_vars

\* The construction and open() calls alone.
OpenNext ==
    \/ \E cls \in CallClasses, init \in Inits : New(cls, init)
    \/ \E init \in ListInits \cup {NoInit}, iscopy \in BOOLEAN : NewContainer(init, iscopy)
    \/ \E init \in Inits \ {NoInit}, target \in Targets : Open(init, target)
    \/ Return

SpecOpen == Init /\ [][OpenNext]_vars

\* Item and attribute access on wrappers built from nothing or from a node.
AttrNext ==
    \/ \E cls \in {"DataModel", "FlatRefModel"}, init \in {NoInit, NodeInit(1)} : New(cls, init)
    \/ NewContainer(ListInit(<<>>), FALSE)
    \/ \E m \in ModelIds, key \in Keys, value \in Values : SetItem(m, key, value)
    \/ \E m \in ModelIds, key \in Keys, value \in Values : SetAttr(m, key, value)
    \/ \E m \in ModelIds, key \in Keys : GetAttr(m, key)
    \/ Return

SpecAttr == Init /\ [][AttrNext]_vars

\* Writing a model to a file and reading files back.
SaveNext ==
    \/ \E cls \in CallClasses, init \in {NoInit, NodeInit(1)} : New(cls, init)
    \/ \E m \in ModelIds, key \in {"new_attribute", "data"}, value \in Values :
          SetItem(m, key, value)
    \/ \E m \in ModelIds, path \in {OutPath, OutTxtPath}, dir_path \in {"", "d"} :
          Save(m, path, dir_path)
    \/ \E path \in {InPath, OutPath, OutDirPath} : Open(PathInit(path), NoTarget)
    \/ Return

SpecSave == Init /\ [][SaveNext]_vars

\* Opening, copying and closing: with-blocks, close() and __del__.
CloseNext ==
    \/ \E init \in {PathInit(InPath), AsdfInit(1)} \cup {ModelInit(m) : m \in ModelIds} :
          Open(init, NoTarget)
    \/ \E iscopy \in BOOLEAN : NewContainer(ListInit(<<PathInit(InPath)>>), iscopy)
    \/ \E m \in ModelIds : Copy(m)
    \/ \E m \in ModelIds : Close(m)
    \/ \E m \in ModelIds, exc_type \in {NoExc, "RuntimeError"} : Exit(m, exc_type)
    \/ \E m \in ModelIds : Del(m)
    \/ Return

SpecClose == Init /\ [][CloseNext]_vars

\* The trees a wrapped node holds in the runs of items(): a root mapping of
\* up to MaxKids entries, each a leaf, a list or a mapping.
Leaves ==
    {Leaf("str", "s"), Leaf("int", "1"), Leaf("ndarray", "arr"),
     Leaf("Time", "Time(2020-01-01)"), Leaf("datetime", "datetime(2020,1,1)"), NoneLeaf}
ListElems == {Leaf("int", "1"), NoneLeaf, DictTree(<< <<"b", Leaf("str", "s")>> >>)}
Lists ==
    {ListTree(<<>>)} \cup {ListTree(<<x>>) : x \in ListElems}
    \cup {ListTree(<<x, y>>) : x \in ListElems, y \in ListElems}
Dicts ==
    {DictTree(<<>>)}
    \cup {DictTree(<< <<"b", v>> >>) :
             v \in {Leaf("int", "1"), Leaf("Time", "Time(2020-01-01)"), NoneLeaf}}
Subtrees == Leaves \cup Lists \cup Dicts
RootKeys == {"a", "a.b", "a.0"}
RootTrees ==
    {DictTree(kids) :
        kids \in {ks \in UNION {[1..n -> RootKeys \X Subtrees] : n \in 1..MaxKids} :
                    \A i \in DOMAIN ks, j \in DOMAIN ks : ks[i][1] = ks[j][1] => i = j}}

\* A FlatRefModel built from a node that holds one of the trees.
InitItems ==
    \E tree \in RootTrees :
        LET node == [type |-> "FlatRef", data |-> tree]
            r == Allocate(DataModel_init(Heap(<<>>, <<node>>, <<>>), "FlatRefModel",
                                         NodeInit(1)))
        IN  /\ models = r.H.models
            /\ nodes = r.H.nodes
            /\ afs = r.H.afs
            /\ disk = [p \in Paths |-> Absent]
            /\ saved = NoSave
            /\ writes = 0
            /\ saves = 0
            /\ last = NoCall

\* Reading a model's items in its three forms.
ItemsNext ==
    \/ \E m \in ModelIds : Items(m)
    \/ \E m \in ModelIds, include_arrays \in BOOLEAN : ToFlatDict(m, include_arrays)
    \/ \E m \in ModelIds : GetCrdsParameters(m)
    \/ Return

SpecItems == InitItems /\ [][ItemsNext]_vars

\* The meta.observation values of the images in the runs of models_grouped.
Observations ==
    {("program" :> program) @@ ("observation" :> observation) @@ ("visit" :> 1) @@
     ("visit_file_group" :> 1) @@ ("visit_file_sequence" :> 1) @@
     ("visit_file_activity" :> 1) @@ ("exposure" :> exposure) :
        program \in {1, 11}, observation \in {1, 11}, exposure \in {1, 2}}

ImageNode(obs) == [type |-> "WfiImage", data |-> obs]

\* ImageModel(nodes[1]), ..., ImageModel(nodes[k]) on the heap H
RECURSIVE WithImageModels(_, _)
WithImageModels(H, k) ==
    IF k = 0 THEN H
    ELSE CHOOSE H1 \in {Allocate(DataModel_init(H0, "ImageModel", NodeInit(k))).H :
                            H0 \in {WithImageModels(H, k - 1)}} : TRUE

\* A ModelContainer of up to MaxMembers ImageModels built from nodes, or a
\* ModelContainer of paths of an image file.
InitGroup ==
    \E n \in 1..MaxMembers, by_path \in BOOLEAN :
    \E obs \in [1..(IF by_path THEN 1 ELSE n) -> Observations] :
    \E H1 \in {IF by_path THEN Heap(<<>>, <<>>, <<>>)
               ELSE WithImageModels(
                        Heap(<<>>, [i \in 1..n |-> ImageNode(obs[i])], <<>>), n)} :
    \E init \in {ListInit([i \in 1..n |-> IF by_path THEN PathInit(InPath)
                                           ELSE ModelInit(i)])} :
    \E r \in {Allocate(ModelContainer_init(H1, init, FALSE))} :
        /\ by_path => n <= 2
        /\ models = r.H.models
        /\ nodes = r.H.nodes
        /\ afs = r.H.afs
        /\ disk = [p \in Paths |->
                     IF by_path /\ p = InPath
                     THEN Serialize(TRUE, ImageNode(obs[1])) ELSE Absent]
        /\ saved = NoSave
        /\ writes = 0
        /\ saves = 0
        /\ last = NoCall

GroupNext ==
    \/ \E c \in ModelIds : ModelsGrouped(c)
    \/ Return

SpecGroup == InitGroup /\ [][GroupNext]_vars

\* ------------------------------------------------------------------ claims
\* The class open() is to choose for a root node of type t.
RegistryClass(t) == IF t \in DOMAIN model_registry THEN model_registry[t] ELSE "DataModel"

\* The last call was open() on an AsdfFile with a 'roman' entry, or on the
\* path of a plain, valid ASDF file with one.
OpenedTree ==
    /\ last.op = "open"
    /\ \/ last.init.kind = "asdf" /\ afs[last.init.ref].has_roman
       \/ /\ last.init.kind = "path"
          /\ disk[last.init.path].kind = "asdf"
          /\ disk[last.init.path].has_roman
          /\ ContentValid(disk[last.init.path])

\* The type of the root 'roman' node of the tree that last call opened.
OpenedType ==
    IF last.init.kind = "asdf" THEN NodeType(TheHeap, afs[last.init.ref].roman)
    ELSE TypeOfTag(disk[last.init.path].tag)

IsModelTarget(t) == t # NoTarget /\ issubclass(t, "DataModel")

\* C1: open(init) with init a file path or an AsdfFile and no target returns
\* an instance of exactly the class the registry maps the root node's type
\* to, and of DataModel when the type is not registered.
C1_OpenReturnsRegistryClass ==
    (OpenedTree /\ last.target = NoTarget) =>
        /\ last.exc = NoExc
        /\ last.ret \in ModelIds
        /\ models[last.ret].cls = RegistryClass(OpenedType)

\* C2: open(init, target=T) with init a file path or an AsdfFile whose
\* registered class is a subclass of the DataModel class T returns an
\* instance of the registered class, not None.  Stated for the registered
\* classes that DataModel.__init__ constructs (ModelContainer has its own).
C2_OpenWithTargetReturnsModel ==
    (/\ OpenedTree
     /\ IsModelTarget(last.target)
     /\ OpenedType \in DOMAIN model_registry
     /\ OpenedType # "ModelContainer"
     /\ issubclass(model_registry[OpenedType], last.target)) =>
        /\ last.exc = NoExc
        /\ last.ret \in ModelIds
        /\ models[last.ret].cls = model_registry[OpenedType]

\* C3: with a target, open() raises ValueError when the target is no
\* DataModel subclass, when a DataModel init is no instance of it, and when
\* the class chosen for a file or AsdfFile (the DataModel fallback included)
\* is no subclass of it; it never returns a model that is no instance of it.
\* The chosen class is one that DataModel.__init__ constructs.
C3_TargetIsEnforced ==
    (last.op = "open" /\ last.target # NoTarget) =>
        /\ ~issubclass(last.target, "DataModel") => last.exc = "ValueError"
        /\ (/\ IsModelTarget(last.target)
            /\ last.init.kind = "model"
            /\ ~isinstance(TheHeap, last.init.ref, last.target)) => last.exc = "ValueError"
        /\ (/\ IsModelTarget(last.target)
            /\ OpenedTree
            /\ OpenedType # "ModelContainer"
            /\ ~issubclass(RegistryClass(OpenedType), last.target)) => last.exc = "ValueError"
        /\ (last.exc = NoExc /\ last.ret # NoRef) => isinstance(TheHeap, last.ret, last.target)

\* C4: open(m) with m a DataModel and no target returns a copy of m: another
\* object, of m's class, with _iscopy set.
C4_OpenModelReturnsCopy ==
    (last.op = "open" /\ last.init.kind = "model" /\ last.target = NoTarget) =>
        /\ last.exc = NoExc
        /\ last.ret \in ModelIds
        /\ last.ret # last.init.ref
        /\ models[last.ret].cls = models[last.init.ref].cls
        /\ models[last.ret].dict["_iscopy"]

\* C5: open(m, target=T) with T a DataModel class and m an instance of T
\* returns m itself and changes no wrapper, node or AsdfFile.
C5_OpenMatchingModelReturnsIt ==
    [][(/\ last.op = "none"
        /\ last'.op = "open"
        /\ last'.init.kind = "model"
        /\ IsModelTarget(last'.target)
        /\ isinstance(TheHeap, last'.init.ref, last'.target)) =>
           /\ last'.exc = NoExc
           /\ last'.ret = last'.init.ref
           /\ models' = models
           /\ nodes' = nodes
           /\ afs' = afs]_vars

C5_Witness ==
    /\ last.op = "open"
    /\ last.init.kind = "model"
    /\ last.target = "DataModel"
    /\ models[last.init.ref].cls = "FlatRefModel"
    /\ models[last.init.ref].dict["_instance"] # NoRef
    /\ last.ret = last.init.ref

RegisteredClasses == {model_registry[t] : t \in DOMAIN model_registry}

\* C6: for registered (node type, model class) pairs, constructing the class
\* from a node of its own type succeeds and from a node of another
\* registered type raises.  Stated for the pairs whose class is constructed
\* by DataModel.__init__.
C6_InitOnlyWithCorrectNode ==
    (/\ last.op = "new"
     /\ last.init.kind = "node"
     /\ last.cls \in RegisteredClasses \ {"ModelContainer"}
     /\ nodes[last.init.ref].type \in DOMAIN model_registry \ {"ModelContainer"}) =>
        (last.exc = NoExc <=> model_registry[nodes[last.init.ref].type] = last.cls)

\* C10: while open() reads a file, a ValidationError of the reader reaches
\* the caller as ValidationError and no model is returned; a ValueError of
\* the reader becomes TypeError, a FITS-embedded file is rejected with
\* TypeError, and any other error of the reader is passed on as it is.
C10_OpenerErrors ==
    (/\ last.op = "open"
     /\ last.init.kind = "path"
     /\ last.target = NoTarget \/ IsModelTarget(last.target)) =>
        LET c == disk[last.init.path] IN
        /\ (c.kind \in {"asdf", "fits"} /\ ~ContentValid(c)) =>
               last.exc = "ValidationError" /\ last.ret = NoRef
        /\ c.kind = "not_asdf" => last.exc = "TypeError"
        /\ (c.kind = "fits" /\ ContentValid(c)) => last.exc = "TypeError"
        /\ c.kind = "absent" => last.exc = "FileNotFoundError"

C10_Witness ==
    /\ last.op = "open"
    /\ last.init = PathInit(BadPath)
    /\ last.exc = "ValidationError"
    /\ last.ret = NoRef

\* The call step that just happened is op on a wrapper of a DataModel class
\* that wraps a node.
CallOn(op) ==
    /\ last.op = "none"
    /\ last'.op = op
    /\ models[last'.self].cls # "ModelContainer"

Wrapped(m) == models[m].dict["_instance"]

\* C7: DataModel.__setitem__ with a key that starts with '_' raises
\* ValueError and changes neither a node nor a wrapper.
C7_UnderscoreKeyRejected ==
    [][(CallOn("setitem") /\ startswith_underscore(last'.key)) =>
           /\ last'.exc = "ValueError"
           /\ nodes' = nodes
           /\ models' = models]_vars

C7_Witness ==
    /\ last.op = "setitem"
    /\ last.key = "_underscore"
    /\ Wrapped(last.self) # NoRef
    /\ last.exc = "ValueError"

\* model[key] = v: the node gains key with value v and nothing else changes;
\* model.key then gives v.
AddsKey ==
    /\ last'.exc = NoExc
    /\ nodes' = [nodes EXCEPT ![Wrapped(last'.self)].data = (last'.key :> last'.value) @@ @]
    /\ wrapper_getattr(Heap(models', nodes', afs'), last'.self, last'.key)
         = [exc |-> NoExc, val |-> last'.value]

\* The key of the call is one that an earlier model[key] = v added to the
\* wrapped node.
KeyWasAdded ==
    /\ Wrapped(last'.self) # NoRef
    /\ last'.key \in DOMAIN nodes[Wrapped(last'.self)].data
    /\ last'.key \notin DOMAIN InitData

\* C8 as stated: for a key that does not start with '_' and is no attribute
\* of the wrapped node, model[key] = v adds the key so that model.key gives
\* v, a later model.key = w makes model.key give w, and no other key of the
\* node changes.
C8_SetItemAddsAttribute ==
    [][/\ (/\ CallOn("setitem")
           /\ Wrapped(last'.self) # NoRef
           /\ ~startswith_underscore(last'.key)
           /\ ~node_hasattr(nodes[Wrapped(last'.self)], last'.key)) => AddsKey
       /\ (/\ CallOn("setattr")
           /\ ~startswith_underscore(last'.key)
           /\ KeyWasAdded) => AddsKey]_vars

\* C8 amended: the same, for a key that is also no name defined on the
\* wrapper's class.
C8_SetItemAddsUnshadowedAttribute ==
    [][/\ (/\ CallOn("setitem")
           /\ Wrapped(last'.self) # NoRef
           /\ ~startswith_underscore(last'.key)
           /\ last'.key \notin ClassAttrs
           /\ ~node_hasattr(nodes[Wrapped(last'.self)], last'.key)) => AddsKey
       /\ (/\ CallOn("setattr")
           /\ ~startswith_underscore(last'.key)
           /\ last'.key \notin ClassAttrs
           /\ KeyWasAdded) => AddsKey]_vars

\* model["new_attribute"] = "77" was followed by model.new_attribute = "88".
C8_Witness ==
    /\ last.op = "setattr"
    /\ last.key = "new_attribute"
    /\ last.value = "88"
    /\ last.exc = NoExc
    /\ writes = 2
    /\ nodes[Wrapped(last.self)].data["new_attribute"] = "88"

\* C9: a model written with save(path), path ending in '.asdf', and re-read
\* with open(path) gives a model of the same class with equal items, the
\* items added through __setitem__ included.  Stated for a saved model that
\* wraps a node of a type open() has a DataModel class for.
C9_SaveOpenRoundTrip ==
    (/\ last.op = "open"
     /\ last.init.kind = "path"
     /\ last.init.path = saved.path
     /\ saved.node.type \notin {"NoneType", "ModelContainer"}) =>
        /\ last.exc = NoExc
        /\ last.ret \in ModelIds
        /\ models[last.ret].cls = saved.cls
        /\ Wrapped(last.ret) # NoRef
        /\ items(nodes[Wrapped(last.ret)]) = items(saved.node)

\* The call step that just happened is close(), __exit__ or __del__.
ClosingCall ==
    /\ last.op = "none"
    /\ last'.op \in {"close", "exit", "del"}

\* C11: for a model that is not a copy and holds an AsdfFile (as a model
\* that open() made from a path or an AsdfFile does), leaving a with-block,
\* with or without an exception of the body, closes that AsdfFile; close()
\* and __del__ afterwards leave it closed and raise nothing, and no call
\* opens a closed AsdfFile again.
C11_WithBlockClosesFile ==
    [][/\ (/\ ClosingCall
           /\ ~models[last'.self].dict["_iscopy"]
           /\ models[last'.self].dict["_asdf"] # NoRef) =>
              /\ afs'[models[last'.self].dict["_asdf"]].closed
              /\ last'.op \in {"close", "del"} => last'.exc = NoExc
       /\ \A a \in DOMAIN afs : afs[a].closed => afs'[a].closed]_vars

\* close() on a model that open() read from a file, after its with-block
\* had closed the file.
C11_Witness ==
    /\ last.op \in {"close", "del"}
    /\ last.val = "closed"
    /\ last.exc = NoExc
    /\ models[last.self].cls = "FlatRefModel"
    /\ ~models[last.self].dict["_iscopy"]
    /\ afs[models[last.self].dict["_asdf"]].closed

\* C12: close(), __exit__ and __del__ on a model whose _iscopy flag is set
\* close no AsdfFile at all, so never the one of the model it was copied from.
C12_CopyDoesNotClose ==
    [][(ClosingCall /\ models[last'.self].dict["_iscopy"]) => afs' = afs]_vars

\* A copy was closed while the model it was copied from is there with its
\* file open.
C12_Witness ==
    /\ last.op \in {"close", "exit", "del"}
    /\ models[last.self].dict["_iscopy"]
    /\ models[last.self].cls = "FlatRefModel"
    /\ \E m \in ModelIds :
          /\ ~models[m].dict["_iscopy"]
          /\ models[m].cls = "FlatRefModel"
          /\ ~afs[models[m].dict["_asdf"]].closed

\* Where the leaves of a tree are: a position is the sequence of entry
\* numbers that leads from the root to a node.
\* (a root entry, an entry of it, an entry of a mapping in a list)
Positions == UNION {[1..n -> 1..(MaxKids + 1)] : n \in 0..3}
Missing == Leaf("missing", "")

RECURSIVE At(_, _)
At(tree, pos) ==
    IF pos = <<>> THEN tree
    ELSE IF pos[1] > Len(tree.kids) THEN Missing
    ELSE At(tree.kids[pos[1]][2], Tail(pos))

\* The mapping keys and list indices (as decimal numbers) along a position.
RECURSIVE PathTo(_, _)
PathTo(tree, pos) ==
    IF pos = <<>> THEN <<>>
    ELSE <<IF tree.kind = "dict" THEN tree.kids[pos[1]][1] ELSE str_int(pos[1] - 1)>>
         \o PathTo(tree.kids[pos[1]][2], Tail(pos))

LeafPositions(tree) ==
    {pos \in Positions : At(tree, pos).kind = "leaf"
                         /\ At(tree, pos).type \notin {"missing", "NoneType"}}

ItemAt(tree, pos) == <<join(PathTo(tree, pos)), At(tree, pos)>>

Count(seq, x) == Cardinality({i \in DOMAIN seq : seq[i] = x})

WrappedTree(m) == nodes[Wrapped(m)].data

\* C15: items() yields one (key, value) pair for each leaf of the wrapped
\* tree that is not None and no other pair, the key being the mapping keys
\* and list indices on the way to the leaf joined by '.', and leaves the
\* tree as it was.
C15_ItemsAreTheLeaves ==
    [][(last.op = "none" /\ last'.op = "items") =>
          LET tree == WrappedTree(last'.self)
              out == last'.val
          IN  /\ nodes' = nodes
              /\ Len(out) = Cardinality(LeafPositions(tree))
              /\ \A pos \in LeafPositions(tree) :
                    Count(out, ItemAt(tree, pos))
                      = Cardinality({q \in LeafPositions(tree) :
                                        ItemAt(tree, q) = ItemAt(tree, pos)})]_vars

\* items() on a tree with a None leaf, an empty list or mapping and a
\* mapping inside a list.
C15_Witness ==
    /\ last.op = "items"
    /\ \E i \in DOMAIN last.val : last.val[i][1] = "a.1.b"
    /\ \E pos \in Positions : At(WrappedTree(last.self), pos) = NoneLeaf
    /\ \E pos \in Positions :
          /\ At(WrappedTree(last.self), pos).kind \in {"dict", "list"}
          /\ At(WrappedTree(last.self), pos).kids = <<>>

\* C14: to_flat_dict has one entry per pair of items() (no two items have
\* the same key), under 'roman.' + the item's name, a datetime as its ISO
\* string, a Time as its str, any other value as it is; with
\* include_arrays=False exactly the numpy arrays are left out.
C14_FlatDictHasEveryItem ==
    last.op = "to_flat_dict" =>
        LET its == DataModel_items(TheHeap, last.self)
            flat == last.val
            kept == {i \in DOMAIN its : last.value \/ its[i][2].type # "ndarray"}
        IN  /\ \A i \in DOMAIN its, j \in DOMAIN its : its[i][1] = its[j][1] => i = j
            /\ Cardinality(DOMAIN flat) = Cardinality(kept)
            /\ \A i \in kept :
                  /\ ("roman." \o its[i][1]) \in DOMAIN flat
                  /\ flat["roman." \o its[i][1]] =
                        (IF its[i][2].type = "datetime"
                         THEN Leaf("str", isoformat(its[i][2].val))
                         ELSE IF its[i][2].type = "Time"
                         THEN Leaf("str", str_Time(its[i][2].val))
                         ELSE its[i][2])

\* C13: get_crds_parameters is to_flat_dict(include_arrays=False) cut down
\* to the str, int, float, complex and bool values; no array is in it, and
\* each Time or datetime leaf is in it as a string under 'roman.' + its
\* dotted path.
C13_CrdsParameters ==
    last.op = "get_crds_parameters" =>
        LET flat == to_flat_dict(TheHeap, last.self, FALSE)
            crds == last.val
            tree == WrappedTree(last.self)
        IN  /\ DOMAIN crds = {k \in DOMAIN flat : flat[k].type \in CrdsTypes}
            /\ \A k \in DOMAIN crds : crds[k] = flat[k] /\ crds[k].type # "ndarray"
            /\ \A pos \in LeafPositions(tree) :
                  At(tree, pos).type \in {"Time", "datetime"} =>
                      /\ ("roman." \o join(PathTo(tree, pos))) \in DOMAIN crds
                      /\ crds["roman." \o join(PathTo(tree, pos))].type = "str"

\* C16: copy() of a ModelContainer that was constructed from a list does
\* not raise and returns another ModelContainer with as many members in the
\* same order, each DataModel member a copy of the original's and each
\* other member (a path) kept as it is.
C16_ContainerCopy ==
    (last.op = "copy" /\ models[last.self].cls = "ModelContainer") =>
        /\ last.exc = NoExc
        /\ last.ret \in ModelIds
        /\ last.ret # last.self
        /\ models[last.ret].cls = "ModelContainer"
        /\ LET old == models[last.self].dict["_models"]
               new == models[last.ret].dict["_models"]
           IN  /\ Len(new) = Len(old)
               /\ \A i \in DOMAIN old :
                     IF old[i].kind = "model"
                     THEN /\ new[i].kind = "model"
                          /\ new[i].ref # old[i].ref
                          /\ models[new[i].ref].cls = models[old[i].ref].cls
                          /\ models[new[i].ref].dict["_iscopy"]
                     ELSE new[i] = old[i]

\* The members of the container of the last call, the seven values of a
\* member model and the group_id it carries.
Members == models[last.self].dict["_models"]
ObsOf(member) ==
    [p \in DOMAIN unique_exposure_parameters |->
        nodes[Wrapped(member.ref)].data[unique_exposure_parameters[p]]]
GroupIdOf(member) == nodes[Wrapped(member.ref)].data["group_id"]
InGroup(member, group) == \E k \in DOMAIN group : group[k] = member
FirstMember(group) == CHOOSE i \in DOMAIN Members :
    /\ InGroup(Members[i], group)
    /\ \A j \in DOMAIN Members : InGroup(Members[j], group) => i <= j

AttrCall(op) ==
    /\ last.op = "none"
    /\ last'.op = op

\* C18: a DataModel forwards attribute access to the node it wraps.
\* model.attr = value with attr not starting with '_' never changes the
\* wrapper's __dict__ and, when it succeeds, sets attr of the wrapped node to
\* value and nothing else (when it raises, no node changes); with attr
\* starting with '_' it succeeds, sets attr in the wrapper's __dict__ only and
\* changes no node; model.attr for attr neither in the wrapper's __dict__ nor
\* defined on its class gives the wrapped node's attr, AttributeError if the
\* node has none.
C18_AttributeForwarding ==
    [][/\ (AttrCall("setattr") /\ ~startswith_underscore(last'.key)) =>
              /\ models' = models
              /\ IF last'.exc = NoExc
                 THEN /\ Wrapped(last'.self) # NoRef
                      /\ nodes' = [nodes EXCEPT ![Wrapped(last'.self)].data =
                                                  (last'.key :> last'.value) @@ @]
                 ELSE nodes' = nodes
       /\ (AttrCall("setattr") /\ startswith_underscore(last'.key)) =>
              /\ last'.exc = NoExc
              /\ nodes' = nodes
              /\ models' = [models EXCEPT ![last'.self].dict =
                                             (last'.key :> last'.value) @@ @]
       /\ (/\ AttrCall("getattr")
           /\ last'.key \notin DOMAIN models[last'.self].dict
           /\ last'.key \notin ClassAttrs) =>
              IF /\ Wrapped(last'.self) # NoRef
                 /\ node_hasattr(nodes[Wrapped(last'.self)], last'.key)
              THEN /\ last'.exc = NoExc
                   /\ last'.val = nodes[Wrapped(last'.self)].data[last'.key]
              ELSE last'.exc = "AttributeError"]_vars

\* model.new_attribute = "77" went to the wrapped node, which had the
\* attribute from an item assignment, and the wrapper's __dict__ has no such
\* name.
C18_Witness ==
    /\ last.op = "setattr"
    /\ last.key = "new_attribute"
    /\ last.value = "77"
    /\ last.exc = NoExc
    /\ Wrapped(last.self) # NoRef
    /\ nodes[Wrapped(last.self)].data["new_attribute"] = "77"
    /\ "new_attribute" \notin DOMAIN models[last.self].dict

====
